---- MODULE Spec2Model ----
(***************************************************************************)
(* Account ledger core of the banking system (accounts/models.py,          *)
(* accounts/forms.py, accounts/admin.py).                                  *)
(*                                                                         *)
(* Money.  A Decimal value is an integer number of units, one unit being   *)
(* 1/300 of 0.01, so that balance * 0.04 / 12 (= balance / 300) of a       *)
(* stored balance is exact.  A DecimalField(decimal_places=2) column only  *)
(* holds multiples of Cent; Quantize is the rounding done when a Decimal   *)
(* is written to such a column.                                            *)
(*                                                                         *)
(* Persistence.  models.py opens no transaction.atomic block: every        *)
(* save() and every Transaction.objects.create() is its own committed      *)
(* write.  An operation runs on a copy of the row loaded for that call.    *)
(***************************************************************************)
EXTENDS Integers, Sequences, FiniteSets, TLC

\* ------------------------------------------------------------------ bounds
\* operations per behaviour of Spec
MaxOps == 3
\* concurrent requests of ConcSpec
NumReqs == 2

\* ------------------------------------------------------------------- money
\* INTEREST_RATE = Decimal('0.04'), as a percentage
INTEREST_RATE_PCT == 4
\* months of a year, the divisor of calculate_interest
MONTHS == 12
\* units per 0.01, chosen so that x * 0.04 / 12 is a whole number of units
\* for every x a column can hold
Cent == (100 * MONTHS) \div INTEREST_RATE_PCT
\* the Decimal r.pp (r whole, pp hundredths), in units
Rs(r, pp) == (r * 100 + pp) * Cent

MINIMUM_BALANCE == Rs(500, 0)
WITHDRAWAL_LIMIT == Rs(50000, 0)
CURRENT_MINIMUM_BALANCE == Rs(1000, 0)
OVERDRAFT_LIMIT == Rs(10000, 0)
TRANSACTION_FEE == Rs(10, 0)

\* Decimal.quantize(Decimal('0.01')) under either rounding a store applies:
\* ROUND_HALF_EVEN (Python's default context) or half away from zero
\* (a NUMERIC(12,2) column).  \div floors and % is non-negative.
Quantize(x, mode) ==
    LET q == x \div Cent
        r == x % Cent
        up == \/ 2 * r > Cent
              \/ /\ 2 * r = Cent
                 /\ IF mode = "HALF_EVEN" THEN q % 2 = 1 ELSE x > 0
    IN  (IF up THEN q + 1 ELSE q) * Cent

\* ---------------------------------------------------------------- the data
\* primary keys a table may hand out
SavingsIds == {"S1", "S2"}
CurrentIds == {"C1"}
Accts == SavingsIds \cup CurrentIds
NULL == "NULL"
\* User rows (django.contrib.auth)
Users == {"u1", "u2"}
\* values generate_account_number may return
AccountNumbers == {"100000000001", "100000000002", "100000000003"}

DEPOSIT == "DEPOSIT"
WITHDRAWAL == "WITHDRAWAL"
TRANSFER_IN == "TRANSFER_IN"
\* a debit of a transfer recorded under the withdrawal type
TRANSFER_OUT_AsWithdrawal == "WITHDRAWAL"
TRANSFER_OUT == "TRANSFER_OUT"
FEE == "FEE"

VARIABLES
    balance,       \* Account.balance column, per account row
    is_active,     \* Account.is_active column
    transactions,  \* the Transaction table, in insertion order
    db_rounding,   \* rounding of the store's decimal columns
    seed,          \* balance each account was created with
    last,          \* the last call: its inputs, its result, the state before it
    nops,          \* calls made so far
    rows,          \* the account rows that exist, by primary key
    account_number,\* Account.account_number column
    customer,      \* SavingsAccount.customer / CurrentAccount.customer column
    account_type,  \* Account.account_type column
    req            \* ConcSpec: the requests in flight

vars == <<balance, is_active, transactions, db_rounding, seed, rows, account_number, customer, last, nops, req,
          rows, account_number, customer, account_type>>

\* SavingsAccount.__init__ / CurrentAccount.__init__: every instance carries
\* its class's account_type, whatever the row holds
ClassType(a) == IF a \in SavingsIds THEN "SAVINGS" ELSE "CURRENT"
\* the account_type column after self.save() of a loaded instance
SavedType(a) == [account_type EXCEPT ![a] = ClassType(a)]

\* Transaction.account, as an account id
AccountOf(t) == IF t.savings_account # NULL THEN t.savings_account ELSE t.current_account

\* account.transactions: the rows of one account, oldest first
LedgerIn(tbl, a) == SelectSeq(tbl, LAMBDA t: AccountOf(t) = a)
Ledger(a) == LedgerIn(transactions, a)

\* the value of the DecimalField column when a Decimal is saved
ToDB(x) == Quantize(x, db_rounding)

\* ------------------------------------------------------- Transaction.create
UsedIds(tbl) == {tbl[i].transaction_id : i \in 1 .. Len(tbl)}

\* generate_transaction_id: 'TXN' + 10 random digits.  A draw is an id some
\* row holds or an id no row holds; of the latter the least stands for all.
GenerateTransactionId(tbl) ==
    UsedIds(tbl) \cup
        {CHOOSE n \in 1 .. (Len(tbl) + 1) :
            n \notin UsedIds(tbl) /\ \A k \in 1 .. (n - 1) : k \in UsedIds(tbl)}

\* the unique=True constraint on transaction_id
IdTaken(tbl, tid) == \E i \in 1 .. Len(tbl) : tbl[i].transaction_id = tid

\* a row that is tied to no account
NewTransaction_NoAccount(tid, sav, cur, type, amount, bal) ==
    [transaction_id |-> tid, savings_account |-> NULL, current_account |-> NULL,
     transaction_type |-> type, amount |-> ToDB(amount), balance_after |-> ToDB(bal)]

\* a row that records the amount where the balance belongs
NewTransaction_AmountAsBalance(tid, sav, cur, type, amount, bal) ==
    [transaction_id |-> tid, savings_account |-> sav, current_account |-> cur,
     transaction_type |-> type, amount |-> ToDB(amount), balance_after |-> ToDB(amount)]

NewTransaction(tid, sav, cur, type, amount, bal) ==
    [transaction_id |-> tid, savings_account |-> sav, current_account |-> cur,
     transaction_type |-> type, amount |-> ToDB(amount), balance_after |-> ToDB(bal)]

\* ------------------------------------------------------------- validations
\* a deposit that only refuses negative amounts
DepositError_ZeroAllowed(amount) ==
    IF amount < 0 THEN "ValueError" ELSE "none"

DepositError(amount) ==
    IF amount <= 0 THEN "ValueError" ELSE "none"

\* a savings withdrawal that forgets the minimum-balance check
SavingsWithdrawError_NoFloor(bal, amount) ==
    IF amount <= 0 THEN "ValueError"
    ELSE IF amount > WITHDRAWAL_LIMIT THEN "ValueError"
    ELSE "none"

SavingsWithdrawError(bal, amount) ==
    IF amount <= 0 THEN "ValueError"
    ELSE IF amount > WITHDRAWAL_LIMIT THEN "ValueError"
    ELSE IF bal - amount < MINIMUM_BALANCE THEN "ValueError"
    ELSE "none"

CurrentWithdrawError(bal, amount) ==
    IF amount <= 0 THEN "ValueError"
    ELSE IF bal - amount < -OVERDRAFT_LIMIT THEN "ValueError"
    ELSE "none"

\* a savings withdrawal that charges the current account's fee
SavingsDebit_WithFee(bal, amount) == bal - (amount + TRANSACTION_FEE)

\* self.balance -= amount
SavingsDebit(bal, amount) == bal - amount

\* a current withdrawal that forgets the fee
TotalDeduction_NoFee(amount) == amount

TotalDeduction(amount) == amount + TRANSACTION_FEE

SetBalanceError(amount) ==
    IF amount < 0 THEN "ValueError" ELSE "none"

\* balance * INTEREST_RATE / 12, exact for a balance read from its column
Interest(bal) == ((bal \div 100) * INTEREST_RATE_PCT) \div MONTHS

\* ------------------------------------------------------------------ inputs
DepositAmounts == {-Rs(100, 0), 0, Rs(400, 0)}
SavingsWithdrawAmounts == {0, Rs(400, 0), Rs(600, 0), Rs(50000, 1)}
CurrentWithdrawAmounts == {-Rs(100, 0), Rs(500, 0), Rs(11000, 0)}
SetBalanceAmounts == {-Rs(0, 1), 0, Rs(2000, 0)}
\* AccountCreationForm.clean_initial_deposit: what an account may open with
SavingsSeeds == {Rs(500, 0), Rs(505, 50), Rs(1000, 0)}
CurrentSeeds == {Rs(1000, 0)}
Roundings == {"HALF_EVEN", "HALF_UP"}

\* ----------------------------------------------------------- the call log
NoCall ==
    [op |-> "none", acct |-> NULL, amount |-> 0, result |-> "none", returned |-> 0,
     balance |-> balance, is_active |-> is_active, transactions |-> transactions,
     rows |-> rows]

\* a call op(amount) on account a that ended with result, and the state it began in
Call(op, a, amount, result, returned) ==
    [op |-> op, acct |-> a, amount |-> amount, result |-> result, returned |-> returned,
     balance |-> balance, is_active |-> is_active, transactions |-> transactions,
     rows |-> rows]

IdleReqs == [r \in 1 .. NumReqs |-> [pc |-> "idle", amount |-> 0, balance |-> 0, result |-> "none"]]

\* one savings and one current account of user u1 or of two users, opened
\* through the creation form, and nothing done on them yet
Init ==
    /\ rows = {"S1", "C1"}
    /\ account_number = [a \in Accts |-> IF a = "S1" THEN "100000000001"
                                         ELSE IF a = "C1" THEN "100000000002" ELSE NULL]
    /\ \E u \in Users :
          customer = [a \in Accts |-> IF a = "S1" THEN "u1"
                                      ELSE IF a = "C1" THEN u ELSE NULL]
    /\ \E s \in SavingsSeeds, c \in CurrentSeeds :
          seed = [a \in Accts |-> IF a = "S1" THEN s ELSE IF a = "C1" THEN c ELSE 0]
    /\ balance = seed
    /\ is_active = [a \in Accts |-> a \in rows]
    /\ account_type = [a \in Accts |-> IF a \in rows THEN ClassType(a) ELSE NULL]
    /\ transactions = <<>>
    /\ db_rounding \in Roundings
    /\ last = NoCall
    /\ nops = 0
    /\ req = IdleReqs

\* --------------------------------------------------------------- operations
\* the body shared by SavingsAccount.deposit and CurrentAccount.deposit, which
\* differ only in the foreign key they set.  self is a copy of row a.
DepositBody(a, sav, cur, amount, op, arg, ret) ==
    LET self_balance == balance[a]
        err == DepositError(amount)
        new == self_balance + amount
    IN  IF err # "none"
        THEN /\ UNCHANGED <<balance, account_type, transactions>>
             /\ last' = Call(op, a, arg, err, 0)
        ELSE \* self.balance += amount; self.save()
             /\ balance' = [balance EXCEPT ![a] = ToDB(new)]
             /\ account_type' = SavedType(a)
             \* Transaction.objects.create(...)
             /\ \E tid \in GenerateTransactionId(transactions) :
                   IF IdTaken(transactions, tid)
                   THEN /\ UNCHANGED transactions
                        /\ last' = Call(op, a, arg, "IntegrityError", 0)
                   ELSE /\ transactions' = Append(transactions,
                             NewTransaction(tid, sav, cur, DEPOSIT, amount, new))
                        /\ last' = Call(op, a, arg, "ok", ret)

SavingsDeposit(a, amount) ==
    /\ a \in SavingsIds /\ a \in rows
    /\ nops < MaxOps
    /\ DepositBody(a, a, NULL, amount, "deposit", amount, 0)
    /\ nops' = nops + 1
    /\ UNCHANGED <<is_active, db_rounding, seed, rows, account_number, customer, req>>

CurrentDeposit(a, amount) ==
    /\ a \in CurrentIds /\ a \in rows
    /\ nops < MaxOps
    /\ DepositBody(a, NULL, a, amount, "deposit", amount, 0)
    /\ nops' = nops + 1
    /\ UNCHANGED <<is_active, db_rounding, seed, rows, account_number, customer, req>>

\* SavingsAccount.calculate_interest: deposit(interest), then return interest
CalculateInterest(a) ==
    /\ a \in SavingsIds /\ a \in rows
    /\ nops < MaxOps
    /\ LET interest == Interest(balance[a])
       IN  DepositBody(a, a, NULL, interest, "calculate_interest", 0, interest)
    /\ nops' = nops + 1
    /\ UNCHANGED <<is_active, db_rounding, seed, rows, account_number, customer, req>>

SavingsWithdraw(a, amount) ==
    /\ a \in SavingsIds /\ a \in rows
    /\ nops < MaxOps
    /\ LET self_balance == balance[a]
           err == SavingsWithdrawError(self_balance, amount)
           new == SavingsDebit(self_balance, amount)
       IN  IF err # "none"
           THEN /\ UNCHANGED <<balance, account_type, transactions>>
                /\ last' = Call("withdraw", a, amount, err, 0)
           ELSE /\ balance' = [balance EXCEPT ![a] = ToDB(new)]
                /\ account_type' = SavedType(a)
                /\ \E tid \in GenerateTransactionId(transactions) :
                      IF IdTaken(transactions, tid)
                      THEN /\ UNCHANGED transactions
                           /\ last' = Call("withdraw", a, amount, "IntegrityError", 0)
                      ELSE /\ transactions' = Append(transactions,
                                NewTransaction(tid, a, NULL, WITHDRAWAL, amount, new))
                           /\ last' = Call("withdraw", a, amount, "ok", 0)
    /\ nops' = nops + 1
    /\ UNCHANGED <<is_active, db_rounding, seed, rows, account_number, customer, req>>

CurrentWithdraw(a, amount) ==
    /\ a \in CurrentIds /\ a \in rows
    /\ nops < MaxOps
    /\ LET self_balance == balance[a]
           err == CurrentWithdrawError(self_balance, amount)
           new == self_balance - TotalDeduction(amount)
       IN  IF err # "none"
           THEN /\ UNCHANGED <<balance, account_type, transactions>>
                /\ last' = Call("withdraw", a, amount, err, 0)
           ELSE /\ balance' = [balance EXCEPT ![a] = ToDB(new)]
                /\ account_type' = SavedType(a)
                /\ \E tid1 \in GenerateTransactionId(transactions) :
                      IF IdTaken(transactions, tid1)
                      THEN \* the withdrawal row is refused
                           /\ UNCHANGED transactions
                           /\ last' = Call("withdraw", a, amount, "IntegrityError", 0)
                      ELSE LET one == Append(transactions,
                                    NewTransaction(tid1, NULL, a, WITHDRAWAL, amount, new))
                           IN  \E tid2 \in GenerateTransactionId(one) :
                                 IF IdTaken(one, tid2)
                                 THEN \* the fee row is refused
                                      /\ transactions' = one
                                      /\ last' = Call("withdraw", a, amount, "IntegrityError", 0)
                                 ELSE /\ transactions' = Append(one,
                                           NewTransaction(tid2, NULL, a, FEE, TRANSACTION_FEE, new))
                                      /\ last' = Call("withdraw", a, amount, "ok", 0)
    /\ nops' = nops + 1
    /\ UNCHANGED <<is_active, db_rounding, seed, rows, account_number, customer, req>>

\* Account.set_balance
SetBalance(a, amount) ==
    /\ a \in Accts /\ a \in rows
    /\ nops < MaxOps
    /\ LET err == SetBalanceError(amount)
       IN  IF err # "none"
           THEN /\ UNCHANGED <<balance, account_type>>
                /\ last' = Call("set_balance", a, amount, err, 0)
           ELSE /\ balance' = [balance EXCEPT ![a] = ToDB(amount)]
                /\ account_type' = SavedType(a)
                /\ last' = Call("set_balance", a, amount, "ok", 0)
    /\ nops' = nops + 1
    /\ UNCHANGED <<is_active, transactions, db_rounding, seed, rows, account_number, customer, req>>

\* the admin change form of an account, used to flip is_active; the form
\* runs the balance column's MinValueValidator(0.00) before it saves
AdminSetActive(a, flag) ==
    /\ a \in Accts /\ a \in rows
    /\ nops < MaxOps
    /\ flag # is_active[a]
    /\ balance[a] >= 0
    /\ is_active' = [is_active EXCEPT ![a] = flag]
    /\ account_type' = SavedType(a)
    /\ last' = Call("admin", a, 0, "ok", 0)
    /\ nops' = nops + 1
    /\ UNCHANGED <<balance, transactions, db_rounding, seed, rows, account_number, customer, req>>

\* the admin's delete of an account (no ModelAdmin here withdraws the delete
\* permission); on_delete=CASCADE removes the account's Transaction rows
AdminDeleteAccount(a) ==
    /\ a \in rows
    /\ nops < MaxOps
    /\ rows' = rows \ {a}
    /\ transactions' = SelectSeq(transactions, LAMBDA t: AccountOf(t) # a)
    /\ balance' = [balance EXCEPT ![a] = 0]
    /\ is_active' = [is_active EXCEPT ![a] = FALSE]
    /\ account_number' = [account_number EXCEPT ![a] = NULL]
    /\ customer' = [customer EXCEPT ![a] = NULL]
    /\ account_type' = [account_type EXCEPT ![a] = NULL]
    /\ last' = Call("admin_delete_account", a, 0, "ok", 0)
    /\ nops' = nops + 1
    /\ UNCHANGED <<db_rounding, seed, req>>

\* the admin's delete of a Transaction row: TransactionAdmin withdraws the add
\* and the change permission only
AdminDeleteTransaction(i) ==
    /\ i \in 1 .. Len(transactions)
    /\ nops < MaxOps
    /\ transactions' = SubSeq(transactions, 1, i - 1)
                            \o SubSeq(transactions, i + 1, Len(transactions))
    /\ last' = Call("admin_delete_transaction", AccountOf(transactions[i]), 0, "ok", 0)
    /\ nops' = nops + 1
    /\ UNCHANGED <<balance, is_active, db_rounding, seed, rows, account_number, customer, account_type, req>>

\* sum(acc.balance for acc in accounts)
RECURSIVE SumBalances(_)
SumBalances(accounts) ==
    IF accounts = {} THEN 0
    ELSE LET acc == CHOOSE x \in accounts : TRUE
         IN  balance[acc] + SumBalances(accounts \ {acc})

\* a total that does not filter on is_active
get_total_balance_AllAccounts(user) ==
    SumBalances({a \in SavingsIds \cap rows : customer[a] = user})
    + SumBalances({a \in CurrentIds \cap rows : customer[a] = user})

\* CustomerProfile.get_total_balance
get_total_balance(user) ==
    LET savings == {a \in SavingsIds \cap rows : customer[a] = user /\ is_active[a]}
        current == {a \in CurrentIds \cap rows : customer[a] = user /\ is_active[a]}
    IN  SumBalances(savings) + SumBalances(current)

\* a read of the total of one user
GetTotalBalance(user) ==
    /\ nops < MaxOps
    /\ last' = [op |-> "get_total_balance", acct |-> NULL, owner |-> user, amount |-> 0,
                result |-> "ok", returned |-> get_total_balance(user),
                balance |-> balance, is_active |-> is_active,
                transactions |-> transactions, rows |-> rows]
    /\ nops' = nops + 1
    /\ UNCHANGED <<balance, is_active, transactions, db_rounding, seed, rows,
                   account_number, customer, account_type, req>>

Next ==
    \/ \E user \in Users : GetTotalBalance(user)
    \/ \E a \in SavingsIds, amount \in DepositAmounts : SavingsDeposit(a, amount)
    \/ \E a \in CurrentIds, amount \in DepositAmounts : CurrentDeposit(a, amount)
    \/ \E a \in SavingsIds : CalculateInterest(a)
    \/ \E a \in SavingsIds, amount \in SavingsWithdrawAmounts : SavingsWithdraw(a, amount)
    \/ \E a \in CurrentIds, amount \in CurrentWithdrawAmounts : CurrentWithdraw(a, amount)
    \/ \E a \in Accts, amount \in SetBalanceAmounts : SetBalance(a, amount)
    \/ \E a \in Accts, flag \in BOOLEAN : AdminSetActive(a, flag)
    \/ \E a \in Accts : AdminDeleteAccount(a)
    \/ \E i \in 1 .. Len(transactions) : AdminDeleteTransaction(i)

Spec == Init /\ [][Next]_vars


\* --------------------------------------------------------- account creation
OpenDeposits == {-Rs(0, 1), Rs(499, 99), Rs(500, 0), Rs(999, 99), Rs(1000, 0)}
AccountTypes == {"savings", "current"}

\* a creation form that checks every account against the savings minimum
CleanInitialDeposit_OneMinimum(acct_type, deposit) ==
    IF deposit < 500 * 100 * Cent THEN "ValidationError" ELSE "none"

\* AccountCreationForm: the initial_deposit field (min_value=0) and
\* clean_initial_deposit
CleanInitialDeposit(acct_type, deposit) ==
    IF deposit < 0 THEN "ValidationError"
    ELSE IF acct_type = "savings" /\ deposit < 500 * 100 * Cent THEN "ValidationError"
    ELSE IF acct_type = "current" /\ deposit < 1000 * 100 * Cent THEN "ValidationError"
    ELSE "none"

\* the table a new account of the chosen type goes to
TableOf(acct_type) == IF acct_type = "savings" THEN SavingsIds ELSE CurrentIds

\* account_number is unique=True on the abstract Account, so each of the two
\* concrete tables has its own unique index
NumberTakenInTable(table, number) ==
    \E b \in table \cap rows : account_number[b] = number

OpenCall(a, acct_type, deposit, number, result) ==
    [op |-> "open_account", acct |-> a, amount |-> deposit, result |-> result,
     returned |-> 0, account_type |-> acct_type, generated |-> number,
     balance |-> balance, is_active |-> is_active, transactions |-> transactions,
     rows |-> rows, account_number |-> account_number]

\* an account creation request: the form, then the row is built with
\* balance = initial_deposit and saved; Account.save draws the number once
OpenAccount(u, acct_type, deposit) ==
    /\ nops < MaxOps
    /\ TableOf(acct_type) \ rows # {}
    /\ nops' = nops + 1
    /\ UNCHANGED <<transactions, db_rounding, req>>
    /\ LET a == CHOOSE x \in TableOf(acct_type) \ rows :
                    \A y \in TableOf(acct_type) \ rows : x = "S1" \/ y # "S1"
           err == CleanInitialDeposit(acct_type, deposit)
       IN  IF err # "none"
           THEN /\ UNCHANGED <<rows, account_number, customer, account_type, balance, is_active, seed>>
                /\ last' = OpenCall(NULL, acct_type, deposit, NULL, err)
           ELSE \E number \in AccountNumbers :
                  IF NumberTakenInTable(TableOf(acct_type), number)
                  THEN /\ UNCHANGED <<rows, account_number, customer, account_type, balance, is_active, seed>>
                       /\ last' = OpenCall(NULL, acct_type, deposit, number, "IntegrityError")
                  ELSE /\ rows' = rows \cup {a}
                       /\ account_number' = [account_number EXCEPT ![a] = number]
                       /\ customer' = [customer EXCEPT ![a] = u]
                       /\ account_type' = [account_type EXCEPT ![a] = ClassType(a)]
                       /\ balance' = [balance EXCEPT ![a] = ToDB(deposit)]
                       /\ seed' = [seed EXCEPT ![a] = ToDB(deposit)]
                       /\ is_active' = [is_active EXCEPT ![a] = TRUE]
                       /\ last' = OpenCall(a, acct_type, deposit, number, "ok")

\* an empty database
OpenInit ==
    /\ rows = {}
    /\ account_number = [a \in Accts |-> NULL]
    /\ customer = [a \in Accts |-> NULL]
    /\ seed = [a \in Accts |-> 0]
    /\ balance = seed
    /\ is_active = [a \in Accts |-> FALSE]
    /\ account_type = [a \in Accts |-> IF a \in rows THEN ClassType(a) ELSE NULL]
    /\ transactions = <<>>
    /\ db_rounding \in Roundings
    /\ last = NoCall
    /\ nops = 0
    /\ req = IdleReqs

OpenNext ==
    \E u \in Users, acct_type \in AccountTypes, deposit \in OpenDeposits :
        OpenAccount(u, acct_type, deposit)

OpenSpec == OpenInit /\ [][OpenNext]_vars

\* ------------------------------------------- ledger calls on admin-made rows
AdminBalances == {Rs(61000, 0)}
AccountTypeChoices == {"SAVINGS", "CURRENT"}
LedgerDepositAmounts == {0, Rs(400, 0)}
LedgerSavingsWithdrawAmounts == {Rs(600, 0), Rs(30000, 0)}
LedgerCurrentWithdrawAmounts == {Rs(500, 0)}

\* the admin's add form of SavingsAccount / CurrentAccount: customer,
\* account_type (either choice) and balance (MinValueValidator(0.00)) are
\* typed in, is_active keeps its default, Account.save draws the number
AdminAddAccount(table, type, u, bal) ==
    /\ nops < MaxOps
    /\ table \ rows # {}
    /\ bal >= 0
    /\ nops' = nops + 1
    /\ UNCHANGED <<transactions, db_rounding, req>>
    /\ LET a == CHOOSE x \in table \ rows :
                    \A y \in table \ rows : x = "S1" \/ y # "S1"
       IN  \E number \in AccountNumbers :
             IF NumberTakenInTable(table, number)
             THEN /\ UNCHANGED <<rows, account_number, customer, account_type, balance, is_active, seed>>
                  /\ last' = Call("admin_add", NULL, bal, "IntegrityError", 0)
             ELSE /\ rows' = rows \cup {a}
                  /\ account_number' = [account_number EXCEPT ![a] = number]
                  /\ customer' = [customer EXCEPT ![a] = u]
                  /\ account_type' = [account_type EXCEPT ![a] = type]
                  /\ balance' = [balance EXCEPT ![a] = ToDB(bal)]
                  /\ seed' = [seed EXCEPT ![a] = ToDB(bal)]
                  /\ is_active' = [is_active EXCEPT ![a] = TRUE]
                  /\ last' = Call("admin_add", a, bal, "ok", 0)

\* deposit, withdraw and calculate_interest calls, one after the other, on
\* accounts opened through the form or added in the admin
LedgerNext ==
    \/ \E a \in SavingsIds, amount \in LedgerDepositAmounts : SavingsDeposit(a, amount)
    \/ \E a \in CurrentIds, amount \in LedgerDepositAmounts : CurrentDeposit(a, amount)
    \/ \E a \in SavingsIds : CalculateInterest(a)
    \/ \E a \in SavingsIds, amount \in LedgerSavingsWithdrawAmounts : SavingsWithdraw(a, amount)
    \/ \E a \in CurrentIds, amount \in LedgerCurrentWithdrawAmounts : CurrentWithdraw(a, amount)
    \/ \E table \in {SavingsIds, CurrentIds}, type \in AccountTypeChoices,
          u \in Users, bal \in AdminBalances : AdminAddAccount(table, type, u, bal)

LedgerSpec == Init /\ [][LedgerNext]_vars

\* ---------------------------------------------------------------- transfers
TransferAmounts == {Rs(0, 50), Rs(200, 0)}

\* a transfer form that does not compare the two account numbers
TransferFormError_NoSameCheck(from, to, amount) ==
    IF amount < Rs(1, 0) THEN "ValidationError"
    ELSE IF ~ \E b \in rows : account_number[b] = to /\ is_active[b] THEN "ValidationError"
    ELSE "none"

\* TransferForm: the amount field (min_value=1), clean_to_account (an active
\* Savings or Current account has that number) and clean (from # to)
TransferFormError(from, to, amount) ==
    IF amount < Rs(1, 0) THEN "ValidationError"
    ELSE IF ~ \E b \in rows : account_number[b] = to /\ is_active[b] THEN "ValidationError"
    ELSE IF from = to THEN "ValidationError"
    ELSE "none"

\* the withdrawal checks of the source's variant, reused for the debit
TransferDebitError(x, amount) ==
    IF x \in SavingsIds THEN SavingsWithdrawError(balance[x], amount)
    ELSE CurrentWithdrawError(balance[x], amount)

RowFor(tid, a, type, amount, bal) ==
    IF a \in SavingsIds THEN NewTransaction(tid, a, NULL, type, amount, bal)
    ELSE NewTransaction(tid, NULL, a, type, amount, bal)

TransferCall(x, y, from, to, amount, result) ==
    [op |-> "transfer", acct |-> x, dest |-> y, from |-> from, to |-> to,
     amount |-> amount, result |-> result, returned |-> 0,
     balance |-> balance, is_active |-> is_active, transactions |-> transactions,
     rows |-> rows, account_number |-> account_number]

\* transfer(from, to, amount): the form, then debit and credit with their two
\* entries in one atomic unit; no fee
Transfer(from, to, amount) ==
    /\ nops < MaxOps
    /\ nops' = nops + 1
    /\ UNCHANGED <<is_active, db_rounding, seed, rows, account_number, customer, account_type, req>>
    /\ LET ferr == TransferFormError(from, to, amount)
           sources == {b \in rows : account_number[b] = from /\ is_active[b]}
           dests == {b \in rows : account_number[b] = to /\ is_active[b]}
       IN  IF ferr # "none"
           THEN /\ UNCHANGED <<balance, transactions>>
                /\ last' = TransferCall(NULL, NULL, from, to, amount, ferr)
           ELSE IF sources = {}
           THEN /\ UNCHANGED <<balance, transactions>>
                /\ last' = TransferCall(NULL, NULL, from, to, amount, "AccountNotFound")
           ELSE \E x \in sources, y \in dests :
                  LET derr == TransferDebitError(x, amount)
                      from_balance == balance[x] - amount
                      to_balance == balance[y] + amount
                  IN  IF derr # "none"
                      THEN /\ UNCHANGED <<balance, transactions>>
                           /\ last' = TransferCall(x, y, from, to, amount, derr)
                      ELSE \E tid1 \in GenerateTransactionId(transactions) :
                             LET one == Append(transactions,
                                           RowFor(tid1, x, TRANSFER_OUT, amount, from_balance))
                             IN  \E tid2 \in GenerateTransactionId(one) :
                                   IF IdTaken(transactions, tid1) \/ IdTaken(one, tid2)
                                   THEN \* rolled back as a whole
                                        /\ UNCHANGED <<balance, transactions>>
                                        /\ last' = TransferCall(x, y, from, to, amount, "IntegrityError")
                                   ELSE /\ balance' = [balance EXCEPT ![x] = ToDB(from_balance),
                                                                      ![y] = ToDB(to_balance)]
                                        /\ transactions' = Append(one,
                                              RowFor(tid2, y, TRANSFER_IN, amount, to_balance))
                                        /\ last' = TransferCall(x, y, from, to, amount, "ok")

TransferNext ==
    \/ \E from \in AccountNumbers, to \in AccountNumbers, amount \in TransferAmounts :
          Transfer(from, to, amount)
    \/ \E a \in Accts, flag \in BOOLEAN : AdminSetActive(a, flag)

TransferSpec == Init /\ [][TransferNext]_vars

\* ------------------------------------------------------ concurrent requests
\* NumReqs requests each withdraw the same amount from the one savings
\* account.  A request loads its own copy of the row, runs
\* SavingsAccount.withdraw on the copy, and its two writes (save, create) are
\* separate commits that other requests' steps may fall between.
ConcBalances == {Rs(1000, 0), Rs(1500, 0)}
ConcAmounts == {Rs(250, 0), Rs(400, 0), Rs(600, 0)}
ConcAcct == "S1"

ConcInit ==
    /\ rows = {"S1", "C1"}
    /\ account_number = [a \in Accts |-> IF a = "S1" THEN "100000000001"
                                         ELSE IF a = "C1" THEN "100000000002" ELSE NULL]
    /\ customer = [a \in Accts |-> IF a \in rows THEN "u1" ELSE NULL]
    /\ \E b \in ConcBalances :
          seed = [a \in Accts |-> IF a = ConcAcct THEN b
                                  ELSE IF a = "C1" THEN Rs(1000, 0) ELSE 0]
    /\ balance = seed
    /\ is_active = [a \in Accts |-> a \in rows]
    /\ account_type = [a \in Accts |-> IF a \in rows THEN ClassType(a) ELSE NULL]
    /\ transactions = <<>>
    /\ db_rounding \in Roundings
    /\ last = NoCall
    /\ nops = 0
    /\ \E amt \in ConcAmounts :
          req = [r \in 1 .. NumReqs |->
                    [pc |-> "idle", amount |-> amt, balance |-> 0, result |-> "none"]]

\* the view fetches the account row
ReqLoad(r) ==
    /\ req[r].pc = "idle"
    /\ req' = [req EXCEPT ![r].pc = "loaded", ![r].balance = balance[ConcAcct]]
    /\ UNCHANGED <<balance, is_active, transactions, db_rounding, seed, rows, account_number, customer, account_type, last, nops>>

\* withdraw, up to and including self.save()
ReqWithdrawSave(r) ==
    /\ req[r].pc = "loaded"
    /\ LET err == SavingsWithdrawError(req[r].balance, req[r].amount)
           new == SavingsDebit(req[r].balance, req[r].amount)
       IN  IF err # "none"
           THEN /\ req' = [req EXCEPT ![r].pc = "done", ![r].result = err]
                /\ UNCHANGED <<balance, account_type>>
           ELSE /\ req' = [req EXCEPT ![r].pc = "saved", ![r].balance = new]
                /\ balance' = [balance EXCEPT ![ConcAcct] = ToDB(new)]
                /\ account_type' = SavedType(ConcAcct)
    /\ UNCHANGED <<is_active, transactions, db_rounding, seed, rows, account_number, customer, last, nops>>

\* withdraw, from Transaction.objects.create to return True
ReqCreate(r) ==
    /\ req[r].pc = "saved"
    /\ \E tid \in GenerateTransactionId(transactions) :
          IF IdTaken(transactions, tid)
          THEN /\ UNCHANGED transactions
               /\ req' = [req EXCEPT ![r].pc = "done", ![r].result = "IntegrityError"]
          ELSE /\ transactions' = Append(transactions,
                    NewTransaction(tid, ConcAcct, NULL, WITHDRAWAL,
                                   req[r].amount, req[r].balance))
               /\ req' = [req EXCEPT ![r].pc = "done", ![r].result = "ok"]
    /\ UNCHANGED <<balance, is_active, db_rounding, seed, rows, account_number, customer, account_type, last, nops>>

ConcNext ==
    \/ \E r \in 1 .. NumReqs : ReqLoad(r)
    \/ \E r \in 1 .. NumReqs : ReqWithdrawSave(r)
    \/ \E r \in 1 .. NumReqs : ReqCreate(r)

ConcSpec == ConcInit /\ [][ConcNext]_vars


\* ================================================================== claims
LastRow == transactions[Len(transactions)]
\* what the last call left of the state it began in
StateAsBefore == balance = last.balance /\ transactions = last.transactions
Succeeded == last.result = "ok"
\* rows the last call added to the Transaction table
RowsAdded == Len(transactions) - Len(last.transactions)
OldRowsKept == SubSeq(transactions, 1, Len(last.transactions)) = last.transactions

\* C1: every account's balance equals the balance_after of its most recent
\* ledger entry, or its seed balance when it has no entry.
C1_BalanceIsLastEntry ==
    \A a \in rows :
        balance[a] = IF Ledger(a) = <<>> THEN seed[a]
                     ELSE Ledger(a)[Len(Ledger(a))].balance_after

\* C2: of N concurrent withdrawals of A from a savings balance B, at most
\* floor((B - 500.00) / A) report success, and once all have ended the stored
\* balance is B - A * successes.
ConcSuccesses == Cardinality({r \in 1 .. NumReqs : req[r].result = "ok"})
ConcAllDone == \A r \in 1 .. NumReqs : req[r].pc = "done"
C2_ConcurrentWithdrawalsBounded ==
    LET B == seed[ConcAcct]
        A == req[1].amount
    IN  /\ ConcSuccesses <= (B - Rs(500, 0)) \div A
        /\ ConcAllDone => balance[ConcAcct] = B - A * ConcSuccesses

\* C3: a deposit or withdraw that fails after its validation passed leaves the
\* stored balances and the ledgers as they were before the call.
C3_NoPartialApply ==
    (last.op \in {"deposit", "withdraw"} /\ last.result = "IntegrityError")
        => StateAsBefore

\* C4: a successful withdraw on a Current account leaves a balance >= -10000.00,
\* and so a Current balance is >= -10000.00 in every state.
C4_OverdraftFloor ==
    /\ (last.op = "withdraw" /\ last.acct \in CurrentIds /\ Succeeded)
          => balance[last.acct] >= -Rs(10000, 0)
    /\ \A a \in CurrentIds \cap rows : balance[a] >= -Rs(10000, 0)

\* C5: after a successful withdraw on a Savings account the balance and the
\* balance_after of the appended Withdrawal entry are >= 500.00, and a withdraw
\* with balance - amount < 500.00 fails.
C5_SavingsWithdrawFloor ==
    (last.op = "withdraw" /\ last.acct \in SavingsIds) =>
        /\ Succeeded =>
              /\ balance[last.acct] >= Rs(500, 0)
              /\ RowsAdded = 1
              /\ LastRow.transaction_type = WITHDRAWAL
              /\ LastRow.savings_account = last.acct
              /\ LastRow.balance_after >= Rs(500, 0)
        /\ last.balance[last.acct] - last.amount < Rs(500, 0) =>
              /\ ~Succeeded
              /\ StateAsBefore

C5_Witness ==
    /\ last.op = "withdraw" /\ last.acct \in SavingsIds /\ Succeeded
    /\ last.balance[last.acct] = Rs(1000, 0)
    /\ last.amount = Rs(400, 0)
    /\ balance[last.acct] = Rs(600, 0)

\* C6: a Savings account's balance is >= 500.00 in every reachable state.
C6_SavingsNeverBelowMinimum ==
    \A a \in SavingsIds \cap rows : balance[a] >= Rs(500, 0)

\* C7: deposit and withdraw on an account whose is_active flag is false fail
\* and leave its balance and ledger unchanged.
C7_InactiveRejects ==
    (last.op \in {"deposit", "withdraw"} /\ ~last.is_active[last.acct]) =>
        /\ ~Succeeded
        /\ StateAsBefore

\* C8: a deposit or withdraw that fails validation (amount <= 0; Savings
\* amount > 50000.00; Savings balance - amount < 500.00; Current balance -
\* amount < -10000.00) returns an error and leaves balance and ledger as
\* before, with no entry appended.
FailsValidation ==
    LET b == last.balance[last.acct]
    IN  \/ last.amount <= 0
        \/ /\ last.op = "withdraw" /\ last.acct \in SavingsIds
           /\ \/ last.amount > Rs(50000, 0)
              \/ b - last.amount < Rs(500, 0)
        \/ /\ last.op = "withdraw" /\ last.acct \in CurrentIds
           /\ b - last.amount < -Rs(10000, 0)

C8_FailedValidationChangesNothing ==
    (last.op \in {"deposit", "withdraw"} /\ FailsValidation) =>
        /\ last.result = "ValueError"
        /\ StateAsBefore
        /\ RowsAdded = 0

C8_Witness ==
    /\ last.op = "withdraw" /\ last.acct \in CurrentIds
    /\ last.amount > 0
    /\ last.balance[last.acct] - last.amount < -Rs(10000, 0)
    /\ last.result = "ValueError"
    /\ transactions # <<>>

\* C9: on an active account, deposit of an amount > 0 succeeds whatever the
\* balance, raises the balance by exactly the amount and appends exactly one
\* Deposit entry with that amount and the new balance as balance_after.
C9_DepositSucceeds ==
    (last.op = "deposit" /\ last.is_active[last.acct] /\ last.amount > 0) =>
        /\ Succeeded
        /\ balance[last.acct] = last.balance[last.acct] + last.amount
        /\ RowsAdded = 1
        /\ OldRowsKept
        /\ LastRow.transaction_type = DEPOSIT
        /\ AccountOf(LastRow) = last.acct
        /\ LastRow.amount = last.amount
        /\ LastRow.balance_after = balance[last.acct]

\* C10: a successful withdraw of A on a Current account lowers the balance by
\* exactly A + 10.00 and appends exactly two entries, a Withdrawal of A and
\* then a Fee of 10.00, both with balance_after equal to the final balance.
C10_CurrentWithdrawTwoEntries ==
    (last.op = "withdraw" /\ last.acct \in CurrentIds /\ Succeeded) =>
        LET n == Len(last.transactions)
        IN  /\ balance[last.acct] = last.balance[last.acct] - (last.amount + Rs(10, 0))
            /\ RowsAdded = 2
            /\ OldRowsKept
            /\ transactions[n + 1].transaction_type = WITHDRAWAL
            /\ transactions[n + 1].amount = last.amount
            /\ transactions[n + 1].balance_after = balance[last.acct]
            /\ transactions[n + 1].current_account = last.acct
            /\ transactions[n + 2].transaction_type = FEE
            /\ transactions[n + 2].amount = Rs(10, 0)
            /\ transactions[n + 2].balance_after = balance[last.acct]
            /\ transactions[n + 2].current_account = last.acct

C10_Witness ==
    /\ last.op = "withdraw" /\ last.acct \in CurrentIds /\ Succeeded
    /\ last.balance[last.acct] = 0
    /\ last.amount = Rs(500, 0)
    /\ balance[last.acct] = -Rs(510, 0)


\* C11: a successful withdraw of A on a Savings account lowers the balance by
\* exactly A, with no fee, and appends exactly one entry, a Withdrawal of A
\* whose balance_after is the new balance; from 1000.00 a withdraw of 600.00
\* fails and a successful withdraw of 400.00 records balance_after 600.00.
C11_SavingsWithdrawOneEntry ==
    (last.op = "withdraw" /\ last.acct \in SavingsIds) =>
        /\ Succeeded =>
              /\ balance[last.acct] = last.balance[last.acct] - last.amount
              /\ RowsAdded = 1
              /\ OldRowsKept
              /\ LastRow.transaction_type = "WITHDRAWAL"
              /\ LastRow.amount = last.amount
              /\ LastRow.balance_after = balance[last.acct]
              /\ LastRow.savings_account = last.acct
              /\ LastRow.current_account = NULL
        /\ (last.balance[last.acct] = Rs(1000, 0) /\ last.amount = Rs(600, 0))
              => (~Succeeded /\ StateAsBefore)
        /\ (last.balance[last.acct] = Rs(1000, 0) /\ last.amount = Rs(400, 0) /\ Succeeded)
              => LastRow.balance_after = Rs(600, 0)

C11_Witness ==
    /\ last.op = "withdraw" /\ last.acct \in SavingsIds /\ Succeeded
    /\ last.balance[last.acct] = Rs(1000, 0)
    /\ last.amount = Rs(400, 0)
    /\ RowsAdded = 1
    /\ LastRow.transaction_type = "WITHDRAWAL"
    /\ LastRow.balance_after = Rs(600, 0)

\* C12 (as claimed): in each account's ledger every entry's balance_after is
\* the previous entry's balance_after (the seed balance for the first entry)
\* plus its amount for Deposit/TransferIn, minus it for
\* Withdrawal/TransferOut/Fee.
Credits == {"DEPOSIT", "TRANSFER_IN"}
C13_LedgerAppendOnly ==
    \A a \in Accts :
        LET old == LedgerIn(last.transactions, a)
            new == Ledger(a)
        IN  /\ Len(new) >= Len(old)
            /\ SubSeq(new, 1, Len(old)) = old


\* C14: account numbers are globally unique: no two accounts, a Savings and a
\* Current account included, share an account_number.
C14_AccountNumbersUnique ==
    \A a, b \in rows : a # b => account_number[a] # account_number[b]

\* C15: when the number generated for a new account collides with an existing
\* account's number, creation detects it and re-generates: the account is
\* created, with a number no other account has.
OpenValid == last.op = "open_account" /\ last.result # "ValidationError"
NumbersBefore == {last.account_number[b] : b \in last.rows}
C15_CollisionRegenerates ==
    (OpenValid /\ last.generated \in NumbersBefore) =>
        /\ Succeeded
        /\ last.acct \in rows \ last.rows
        /\ account_number[last.acct] \notin NumbersBefore

\* C18: an account is opened only when initial_deposit >= the chosen variant's
\* minimum (500.00 Savings, 1000.00 Current); a request below it is rejected
\* and creates no account.
MinimumOf(acct_type) == IF acct_type = "savings" THEN Rs(500, 0) ELSE Rs(1000, 0)
C16_TransferConserves ==
    (last.op = "transfer" /\ Succeeded) =>
        LET x == last.acct
            y == last.dest
            A == last.amount
            added == SubSeq(transactions, Len(last.transactions) + 1, Len(transactions))
        IN  /\ x # y
            /\ balance[x] = last.balance[x] - A
            /\ balance[y] = last.balance[y] + A
            /\ balance[x] + balance[y] = last.balance[x] + last.balance[y]
            /\ \A b \in Accts \ {x, y} : balance[b] = last.balance[b]
            /\ OldRowsKept
            /\ Len(added) = 2
            /\ \E i, j \in 1 .. 2 :
                  /\ i # j
                  /\ AccountOf(added[i]) = x /\ added[i].transaction_type = "TRANSFER_OUT"
                  /\ AccountOf(added[j]) = y /\ added[j].transaction_type = "TRANSFER_IN"
                  /\ added[i].amount = A /\ added[j].amount = A
            /\ \A i \in 1 .. 2 : added[i].transaction_type # "FEE"

\* 200.00 moved out of a Current account, which paid no fee
C16_Witness ==
    /\ last.op = "transfer" /\ Succeeded
    /\ last.acct \in CurrentIds /\ last.dest \in SavingsIds
    /\ last.amount = Rs(200, 0)
    /\ balance[last.acct] = Rs(800, 0)

\* C17: a transfer request with equal source and destination numbers, or with
\* a destination number that no active Savings or Current account has, is
\* rejected and changes no balance and no ledger.
ActiveNumbersBefore == {last.account_number[b] : b \in {c \in last.rows : last.is_active[c]}}
C17_BadTransferRejected ==
    (last.op = "transfer" /\ (last.from = last.to \/ last.to \notin ActiveNumbersBefore)) =>
        /\ last.result = "ValidationError"
        /\ StateAsBefore

\* 200.00 from an active account to itself was refused
C17_Witness ==
    /\ last.op = "transfer"
    /\ last.amount = Rs(200, 0)
    /\ last.result = "ValidationError"
    /\ last.from = last.to
    /\ last.from \in ActiveNumbersBefore


\* C19: get_total_balance of an owner is exactly the sum of the balances of
\* that owner's active Savings and active Current accounts: inactive accounts
\* and other owners' accounts add nothing, negative Current balances count
\* with their sign.
Contribution(a, user) ==
    IF a \in rows /\ customer[a] = user /\ is_active[a] THEN balance[a] ELSE 0
C19_TotalIsSumOfActiveOwned ==
    last.op = "get_total_balance" =>
        /\ last.returned = Contribution("S1", last.owner) + Contribution("S2", last.owner)
                           + Contribution("C1", last.owner)
        /\ StateAsBefore

\* the owner's Savings account is inactive and their Current account is
\* overdrawn: the total is the negative Current balance
C19_Witness ==
    /\ last.op = "get_total_balance"
    /\ \E s \in SavingsIds \cap rows : customer[s] = last.owner /\ ~is_active[s] /\ balance[s] > 0
    /\ \E c \in CurrentIds \cap rows :
          customer[c] = last.owner /\ is_active[c] /\ balance[c] < 0
                                   /\ last.returned = balance[c]

\* C20: when calculate_interest succeeds on a Savings account with balance B,
\* the interest is B * 0.04 / 12 rounded half-up to 2 decimals: the balance
\* grows by exactly that value, one Deposit entry carries it as its amount
\* (> 0), and it is the value returned.
C20_InterestRoundedHalfUp ==
    (last.op = "calculate_interest" /\ Succeeded) =>
        LET B == last.balance[last.acct]
            rounded == Quantize(Interest(B), "HALF_UP")
        IN  /\ rounded > 0
            /\ balance[last.acct] = B + rounded
            /\ RowsAdded = 1 /\ OldRowsKept
            /\ AccountOf(LastRow) = last.acct
            /\ LastRow.transaction_type = "DEPOSIT"
            /\ LastRow.amount = rounded
            /\ last.returned = rounded


\* the amount a ledger call handed to deposit or withdraw
LedgerOps == {"deposit", "withdraw", "calculate_interest"}
PassedAmount ==
    IF last.op = "calculate_interest" THEN Interest(last.balance[last.acct]) ELSE last.amount
Scale2(x) == x % Cent = 0

\* C21: an amount passed to deposit or withdraw that is not strictly positive
\* or has more than 2 fractional digits is rejected with the state unchanged;
\* so every ledger entry's amount is strictly positive with at most 2
\* fractional digits and every balance has at most 2 fractional digits.
C21_AmountsPositiveScale2 ==
    /\ (last.op \in LedgerOps /\ (PassedAmount <= 0 \/ ~Scale2(PassedAmount))) =>
          /\ last.result \notin {"ok", "IntegrityError"}
          /\ StateAsBefore
    /\ \A i \in 1 .. Len(transactions) :
          transactions[i].amount > 0 /\ Scale2(transactions[i].amount)
    /\ \A a \in rows : Scale2(balance[a])


\* C22: every ledger entry references exactly one account: each Transaction
\* has exactly one of savings_account and current_account set, never both and
\* never neither, and the entries a deposit, withdraw or calculate_interest
\* call creates reference the account the call was made on.
AddedRows == SubSeq(transactions, Len(last.transactions) + 1, Len(transactions))
C22_EntryHasExactlyOneAccount ==
    /\ \A i \in 1 .. Len(transactions) :
          LET t == transactions[i]
          IN  /\ (t.savings_account = NULL) # (t.current_account = NULL)
              /\ t.savings_account \in (SavingsIds \cap rows) \cup {NULL}
              /\ t.current_account \in (CurrentIds \cap rows) \cup {NULL}
    /\ last.op \in LedgerOps =>
          /\ OldRowsKept
          /\ \A i \in 1 .. Len(AddedRows) :
                /\ AccountOf(AddedRows[i]) = last.acct
                /\ last.acct \in SavingsIds => AddedRows[i].savings_account = last.acct
                /\ last.acct \in CurrentIds => AddedRows[i].current_account = last.acct

\* a Current withdrawal added its two entries next to a Savings entry
C22_Witness ==
    /\ last.op = "withdraw" /\ Succeeded
    /\ last.acct \in CurrentIds
    /\ Len(AddedRows) = 2
    /\ \E i \in 1 .. Len(last.transactions) : last.transactions[i].savings_account # NULL

\* the sum of the amounts of the entries of seq whose type is in types
RECURSIVE SumAmounts(_, _)
SumAmounts(seq, types) ==
    IF seq = <<>> THEN 0
    ELSE (IF Head(seq).transaction_type \in types THEN Head(seq).amount ELSE 0)
         + SumAmounts(Tail(seq), types)

\* C23: the Savings withdrawal limit of 50000.00 is a daily limit: the amounts
\* of the successful withdrawals from one Savings account within one day
\* never add up to more than 50000.00.  (No step of the model changes the
\* date: every behaviour lies within one day.)
C23_DailyWithdrawalLimit ==
    \A a \in SavingsIds \cap rows :
        SumAmounts(Ledger(a), {"WITHDRAWAL"}) <= WITHDRAWAL_LIMIT

\* C24: after any sequential series of successful and failed deposit,
\* withdraw and calculate_interest calls, each account's balance equals its
\* seed balance plus the amounts of its Deposit entries minus the amounts of
\* its Withdrawal and Fee entries.
C24_LedgerReconcilesByAmounts ==
    \A a \in rows :
        balance[a] = seed[a] + SumAmounts(Ledger(a), {"DEPOSIT"})
                             - SumAmounts(Ledger(a), {"WITHDRAWAL", "FEE"})

\* C25: a deposit, withdraw or calculate_interest call on one account leaves
\* every other account's balance, is_active flag and ledger unchanged, and
\* leaves the target account's account_number, account_type, owner and
\* is_active flag unchanged.
LedgerCallStep == nops' = nops + 1 /\ last'.op \in LedgerOps
C25_LedgerCallFrame ==
    [][LedgerCallStep =>
          /\ \A b \in Accts \ {last'.acct} :
                /\ balance'[b] = balance[b]
                /\ is_active'[b] = is_active[b]
                /\ LedgerIn(transactions', b) = LedgerIn(transactions, b)
          /\ account_number'[last'.acct] = account_number[last'.acct]
          /\ account_type'[last'.acct] = account_type[last'.acct]
          /\ customer'[last'.acct] = customer[last'.acct]
          /\ is_active'[last'.acct] = is_active[last'.acct]
          /\ rows' = rows]_vars

====
